---- MODULE Spec2Model ----
(***************************************************************************)
(* Model of the Konica Minolta CL-200A serial drivers of luxmeters-py:      *)
(*   src/luxmeters/konica/CL200A.py      (class CL200A)                    *)
(*   src/konica/ChromaMeterKonica.py     (class ChromaMeterKonica)         *)
(*                                                                         *)
(* A string is a sequence of one-character tokens ("STX", "ETX", "CR" and  *)
(* "LF" stand for the control characters), indexed from 0 by the Python    *)
(* helpers Slice and Index.  Every serial operation a driver performs is   *)
(* appended to the log `wire`.  Settle delays are in milliseconds.         *)
(* get_xyz values are in tenths (float(field)/10), lux values in           *)
(* thousandths (round(..., 3)).                                            *)
(*                                                                         *)
(* and of the Uni-T UT382 decoder, src/luxmeters/ut382/ut382.py.  A byte   *)
(* list is a sequence of integers 0..255, indexed from 0 in the source and *)
(* from 1 here.  Each part has its own specification; the variables of the *)
(* other parts stay at their initial values.                               *)
(***************************************************************************)
EXTENDS Integers, Sequences, FiniteSets, TLC

VARIABLES variant, status, hs, is_alive, wire, last, lost, ncalls

\* decode_raw: the byte list at hand, the result of the last call, the
\* result of the call before it, the number of later changes to the list
VARIABLES bs, raw_out, raw_prev, nflips

\* live_sync: the bytes that reached the port and were not read yet, the
\* number of pieces the meter sent, com.timeout (ms), the position of the
\* generator, its flag err, the list reply2 of live_raw, the last call of
\* listen, the last payload yielded
VARIABLES rx, nsent, com_timeout, sync_pc, err, reply2, last_read, sync_out

\* core, live_monitor and live_average: the options of core, the display
\* of the meter and the number of its changes, the number of payloads
\* live_monitor took, the exception that ended it, the numbers of readings
\* it yielded, of battery warnings and of menu frames, the last reading
\* it yielded, the history of live_average, the non-null readings
\* live_average took, the records it yielded, old of core, the number of
\* rows written and the last row, the units of the non-null readings
\* live_average took
VARIABLES options, shown, nchanges, nframes, mon_exc, nyields, nwarns, nmenus,
          reading, history, readings, emitted, old, nrows, row, reading_units

\* init and cleanup: the module global com, the Serial objects opened, the
\* calls made, the exception of the last call
VARIABLES com, handles, calls, com_exc

clvars == <<variant, status, hs, is_alive, wire, last, lost, ncalls>>
rawvars == <<bs, raw_out, raw_prev, nflips>>
syncvars == <<rx, nsent, com_timeout, sync_pc, err, reply2, last_read, sync_out>>

monvars == <<options, shown, nchanges, nframes, mon_exc, nyields, nwarns, nmenus,
             reading, history, readings, emitted, old, nrows, row, reading_units>>
comvars == <<com, handles, calls, com_exc>>

notcl == <<rawvars, syncvars, monvars, comvars>>
notraw == <<clvars, syncvars, monvars, comvars>>
notsync == <<clvars, rawvars, monvars, comvars>>
notmon == <<clvars, rawvars, syncvars, comvars>>
notcom == <<clvars, rawvars, syncvars, monvars>>

vars == <<clvars, rawvars, syncvars, monvars, comvars>>

\* Number of query calls made on one driver instance in a behaviour.
MaxCalls == 2

Variants == {"CL200A", "Chroma"}

(***************************************************************************)
(* Python string helpers                                                   *)
(***************************************************************************)
Min(a, b) == IF a < b THEN a ELSE b

\* s[a:b]: never fails, clips to the length of s
Slice(s, a, b) == SubSeq(s, a + 1, Min(b, Len(s)))

\* s[i] is defined (otherwise IndexError)
HasIndex(s, i) == i < Len(s)

\* s[i], for HasIndex(s, i)
Index(s, i) == s[i + 1]

\* sub in s
Contains(sub, s) ==
    \E k \in 0..Len(s) : k + Len(sub) <= Len(s) /\ Slice(s, k, k + Len(sub)) = sub

Digits == {"0", "1", "2", "3", "4", "5", "6", "7", "8", "9"}

DigitVal(c) ==
    CASE c = "0" -> 0 [] c = "1" -> 1 [] c = "2" -> 2 [] c = "3" -> 3
      [] c = "4" -> 4 [] c = "5" -> 5 [] c = "6" -> 6 [] c = "7" -> 7
      [] c = "8" -> 8 [] c = "9" -> 9

RECURSIVE Pow10(_)
Pow10(n) == IF n = 0 THEN 1 ELSE 10 * Pow10(n - 1)

\* float(s) succeeds (otherwise ValueError): the fields of the frames used
\* here hold decimal digits only, so a field parses iff it is non-empty and
\* all digits
FloatOk(s) == Len(s) > 0 /\ \A i \in 1..Len(s) : s[i] \in Digits

\* float(s) of a digit string, most significant digit first
RECURSIVE FloatVal(_)
FloatVal(s) ==
    IF Len(s) = 0 THEN 0
    ELSE 10 * FloatVal(SubSeq(s, 1, Len(s) - 1)) + DigitVal(s[Len(s)])

(***************************************************************************)
(* Serial operations, as logged                                            *)
(***************************************************************************)
Ev(op, cmd, settle) == [op |-> op, cmd |-> cmd, settle |-> settle]

Open == Ev("open", "-", 0)
ResetIn == Ev("reset_input_buffer", "-", 0)
ResetOut == Ev("reset_output_buffer", "-", 0)
Read == Ev("readline", "-", 0)
Check == Ev("check_measurement", "-", 0)
Parse(field) == Ev("parse", field, 0)

\* write_serial_port(obj, ser, cmd, sleep_time): write, then sleep
write_serial_port(cmd, sleep_time) == <<Ev("write", cmd, sleep_time)>>

IsWrite(e) == e.op = "write"
IsRead(e) == e.op = "readline"
IsSerial(e) == e.op \in {"reset_input_buffer", "reset_output_buffer", "write", "readline"}

(***************************************************************************)
(* Frames                                                                  *)
(***************************************************************************)
\* A full 32-character measurement response with error digit e at offset 6
\* and battery flag b at offset 8; three data fields at 9-14, 15-20, 21-26.
Frame(e, b) ==
    <<"STX", "0", "0", "0", "2", " ", e, "0", b,
      "+", "0", "5", "2", "3", "6",
      "+", "0", "1", "2", "4", "4",
      "+", "0", "0", "0", "7", "4",
      "ETX", "1", "3", "CR", "LF">>

Trunc(s, n) == SubSeq(s, 1, Min(n, Len(s)))

\* the expected answer to command_54 (cmd_formatter(cmd_dict['command_54r']))
command_54r ==
    <<"STX", "0", "0", "5", "4", " ", " ", " ", " ", "ETX", "1", "3", "CR", "LF">>

\* What one readline() call can give: a line (possibly empty, on timeout) or
\* a SerialException.
RdOk(s) == [err |-> FALSE, data |-> s]
RdErr == [err |-> TRUE, data |-> <<>>]

ConnResponses == {RdErr, RdOk(<<>>), RdOk(command_54r), RdOk(Frame("0", "0"))}

\* answers to command_40: none, one too short to have an offset 6, and full
\* frames with every ERR digit the handshake tells apart
ExtErrDigits == {"0", "1", "2", "3", "4", "5"}
ExtResponses ==
    {RdErr, RdOk(<<>>), RdOk(Trunc(Frame("0", "0"), 5))}
      \cup {RdOk(Frame(e, "0")) : e \in ExtErrDigits}

(***************************************************************************)
(* Handshake                                                               *)
(***************************************************************************)
\* the flag switched off: the answer to command_54 is checked
SKIP_CHECK_LIST_off == FALSE

SKIP_CHECK_LIST == TRUE

PowerCycleText == "Switch off the CL-200A and then switch it back on"
NotFoundText == "Lux meter not found. Check that the cable is properly connected."
NoConnectText == "Could not connect to luxmeter"
VerifyCableText == "Konica Minolta CL-200A has an error. Please verify USB cable."

\* result of a handshake step: the serial operations it performed, the
\* exception it raised ("none": returned normally), the exception's text,
\* the responses it read
Step(ops, exc, text, reads) == [ops |-> ops, exc |-> exc, text |-> text, reads |-> reads]

\* one pass of the loop body of __connection up to the check of the answer
connection_attempt(r) ==
    write_serial_port("command_54", 500) \o <<Read>>
      \o (IF r.err THEN <<>> ELSE <<ResetIn, ResetOut>>)

\* __connection: r1, r2 are the outcomes of the first and second readline
connection(v, r1, r2) ==
    IF r1.err THEN Step(connection_attempt(r1), "SerialException", "", <<>>)
    ELSE IF SKIP_CHECK_LIST \/ Contains(command_54r, r1.data)
    THEN Step(connection_attempt(r1), "none", "", <<r1.data>>)
    ELSE \* i == 0: attempt one more time
      LET ops == connection_attempt(r1) \o connection_attempt(r2) IN
      IF r2.err THEN Step(ops, "SerialException", "", <<r1.data>>)
      ELSE IF Contains(command_54r, r2.data) THEN Step(ops, "none", "", <<r1.data, r2.data>>)
      ELSE IF v = "CL200A"
      THEN Step(ops, "SerialException", VerifyCableText, <<r1.data, r2.data>>)
      ELSE Step(ops, "none", "", <<r1.data, r2.data>>)

\* __hold_mode
hold_mode == <<ResetIn, ResetOut>> \o write_serial_port("command_55", 500)

\* the ERR byte tests of __ext_mode on ext_mode_err[6:7]
ExtErr4(s) == Slice(s, 6, 7) = <<"4">>

\* a fatal test that forgets "3"
ExtErrFatal_without3(s) == Slice(s, 6, 7) \in {<<"1">>, <<"2">>}

ExtErrFatal(s) == Slice(s, 6, 7) \in {<<"1">>, <<"2">>, <<"3">>}

\* one pass of the loop body of __ext_mode up to the readline
ext_attempt == write_serial_port("command_40", 125) \o <<Read>>

\* an __ext_mode that goes round its loop a third time after two "4"
ext_mode_thrice(r1, r2) ==
    LET pre == <<ResetIn, ResetOut>> \o ext_attempt IN
    IF r1.err THEN Step(pre, "SerialException", "", <<>>)
    ELSE IF ExtErr4(r1.data)
    THEN LET ops2 == pre \o hold_mode \o ext_attempt IN
         IF r2.err THEN Step(ops2, "SerialException", "", <<r1.data>>)
         ELSE IF ExtErr4(r2.data)
         THEN Step(ops2 \o hold_mode \o ext_attempt \o hold_mode, "none", "",
                   <<r1.data, r2.data, r2.data>>)
         ELSE IF ExtErrFatal(r2.data)
         THEN Step(ops2, "ConnectionError", PowerCycleText, <<r1.data, r2.data>>)
         ELSE Step(ops2, "none", "", <<r1.data, r2.data>>)
    ELSE IF ExtErrFatal(r1.data)
    THEN Step(pre, "ConnectionError", PowerCycleText, <<r1.data>>)
    ELSE Step(pre, "none", "", <<r1.data>>)

\* __ext_mode: r1, r2 are the outcomes of the first and second readline
ext_mode(r1, r2) ==
    LET pre == <<ResetIn, ResetOut>> \o ext_attempt IN
    IF r1.err THEN Step(pre, "SerialException", "", <<>>)
    ELSE IF ExtErr4(r1.data)
    THEN LET ops2 == pre \o hold_mode \o ext_attempt IN
         IF r2.err THEN Step(ops2, "SerialException", "", <<r1.data>>)
         ELSE IF ExtErr4(r2.data)
         THEN \* hold mode is repeated and range(2) is exhausted
              Step(ops2 \o hold_mode, "none", "", <<r1.data, r2.data>>)
         ELSE IF ExtErrFatal(r2.data)
         THEN Step(ops2, "ConnectionError", PowerCycleText, <<r1.data, r2.data>>)
         ELSE Step(ops2, "none", "", <<r1.data, r2.data>>)
    ELSE IF ExtErrFatal(r1.data)
    THEN Step(pre, "ConnectionError", PowerCycleText, <<r1.data>>)
    ELSE Step(pre, "none", "", <<r1.data>>)

\* __init__: the exception that leaves the constructor for an exception
\* raised by the handshake (SerialException is caught and replaced)
init_exc(exc) == IF exc = "SerialException" THEN "Exception" ELSE exc
init_text(exc, text) == IF exc = "SerialException" THEN NotFoundText ELSE text

\* result of __init__: conn and reads are the responses read for
\* command_54 and for command_40
Made(ops, exc, text, conn, reads) ==
    [ops |-> ops, exc |-> exc, text |-> text, conn |-> conn, reads |-> reads]

\* __init__
init_(v, openOk, c1, c2, e1, e2) ==
    IF ~openOk THEN Made(<<>>, "Exception", NoConnectText, <<>>, <<>>)
    ELSE
      LET c == connection(v, c1, c2) IN
      IF c.exc # "none"
      THEN Made(<<Open>> \o c.ops, init_exc(c.exc), init_text(c.exc, c.text), c.reads, <<>>)
      ELSE
        LET e == ext_mode(e1, e2) IN
        Made(<<Open>> \o c.ops \o hold_mode \o e.ops, init_exc(e.exc),
             init_text(e.exc, e.text), c.reads, e.reads)

(***************************************************************************)
(* Measurement                                                             *)
(***************************************************************************)
BatteryText == "Battery is low"

\* answers to a read command: none, full frames and frames cut after the
\* status bytes with every ERR digit, frames cut inside each later field,
\* and frames with the battery flag set
MeasErrDigits == {"0", "1", "2", "3", "5", "6"}
CutLens == {5, 9, 12, 18, 24}
MeasResponses ==
    {RdErr, RdOk(<<>>)}
      \cup {RdOk(Trunc(Frame(e, "0"), n)) : e \in MeasErrDigits, n \in {8, 32}}
      \cup {RdOk(Trunc(Frame(e, "0"), n)) : e \in {"0", "1"}, n \in CutLens}
      \cup {RdOk(Trunc(Frame("0", "1"), n)) : n \in {9, 32}}

ReadCmds == {"command_01", "command_02", "command_08"}

\* check_measurement(result): the validation order of the protocol.
\* "5" and "6" at offset 6 only log a warning.
check_measurement(result) ==
    IF ~HasIndex(result, 6) THEN [exc |-> "IndexError", text |-> ""]
    ELSE IF Index(result, 6) \in {"1", "2", "3"}
    THEN [exc |-> "DeviceError", text |-> PowerCycleText]
    ELSE IF ~HasIndex(result, 8) THEN [exc |-> "IndexError", text |-> ""]
    ELSE IF Index(result, 8) = "1" THEN [exc |-> "DeviceError", text |-> BatteryText]
    ELSE [exc |-> "none", text |-> ""]

\* result of perform_measurement: its operations, the exception raised
\* ("none": it returned), whether it returned None, the string returned,
\* the value of is_alive afterwards, whether the connection was lost
PM(ops, exc, text, none, str, alive, lostNow) ==
    [ops |-> ops, exc |-> exc, text |-> text, none |-> none, str |-> str,
     alive |-> alive, lost |-> lostNow]

\* the two writes in the wrong order
measurement_exchange_swapped(read_cmd) ==
    <<ResetIn, ResetOut>>
      \o write_serial_port(read_cmd, 0)
      \o write_serial_port("command_40r", 500)
      \o <<Read>>

\* the serial operations of perform_measurement up to the readline
measurement_exchange(read_cmd) ==
    <<ResetIn, ResetOut>>
      \o write_serial_port("command_40r", 500)
      \o write_serial_port(read_cmd, 0)
      \o <<Read>>

\* the result returned without check_measurement
checked_result_unchecked(ops, result, alive) ==
    PM(ops, "none", "", FALSE, result, alive, FALSE)

\* the tail of perform_measurement: check_measurement(result); return result
checked_result(ops, result, alive) ==
    LET chk == check_measurement(result) IN
    IF chk.exc # "none"
    THEN PM(ops \o <<Check>>, chk.exc, chk.text, TRUE, <<>>, alive, FALSE)
    ELSE PM(ops \o <<Check>>, "none", "", FALSE, result, alive, FALSE)

\* perform_measurement without the early return on an empty line
perform_measurement_checks_empty(v, alive, read_cmd, rd) ==
    IF v = "Chroma" /\ ~alive
    THEN PM(<<>>, "none", "", TRUE, <<>>, alive, FALSE)
    ELSE
      LET ops == measurement_exchange(read_cmd) IN
      IF rd.err
      THEN IF v = "CL200A"
           THEN PM(ops, "ConnectionAbortedError", "Connection to Luxmeter was lost.",
                   TRUE, <<>>, alive, TRUE)
           ELSE PM(ops, "none", "", TRUE, <<>>, FALSE, TRUE)
      ELSE checked_result(ops, rd.data, alive)

\* perform_measurement without the is_alive guard
perform_measurement_unguarded(v, alive, read_cmd, rd) ==
    LET ops == measurement_exchange(read_cmd) IN
    IF rd.err
    THEN IF v = "CL200A"
         THEN PM(ops, "ConnectionAbortedError", "Connection to Luxmeter was lost.",
                 TRUE, <<>>, alive, TRUE)
         ELSE PM(ops, "none", "", TRUE, <<>>, FALSE, TRUE)
    ELSE IF Len(rd.data) = 0
    THEN PM(ops, "none", "", TRUE, <<>>, alive, FALSE)
    ELSE checked_result(ops, rd.data, alive)

\* perform_measurement(read_cmd); rd is the outcome of its readline
perform_measurement(v, alive, read_cmd, rd) ==
    IF v = "Chroma" /\ ~alive
    THEN PM(<<>>, "none", "", TRUE, <<>>, alive, FALSE)
    ELSE
      LET ops == measurement_exchange(read_cmd) IN
      IF rd.err
      THEN IF v = "CL200A"
           THEN PM(ops, "ConnectionAbortedError", "Connection to Luxmeter was lost.",
                   TRUE, <<>>, alive, TRUE)
           ELSE PM(ops, "none", "", TRUE, <<>>, FALSE, TRUE)
      ELSE IF Len(rd.data) = 0
      THEN PM(ops, "none", "", TRUE, <<>>, alive, FALSE)
      ELSE checked_result(ops, rd.data, alive)

\* result of a query: perform_measurement's record, with the exception that
\* leaves the query and the value returned (<<>> when none is)
Q(pm, ops, exc, text, val) ==
    [ops |-> pm.ops \o ops, exc |-> exc, text |-> text, val |-> val,
     none |-> (exc # "none"), alive |-> pm.alive, lost |-> pm.lost]

\* the "except IndexError" handler of a query when perform_measurement
\* itself raised: the handler reads the local `result`, which is unbound
pm_failed(pm) ==
    IF pm.exc = "IndexError"
    THEN Q(pm, <<>>, "UnboundLocalError", "", <<>>)
    ELSE Q(pm, <<>>, pm.exc, pm.text, <<>>)

\* the "except IndexError" handler of a query when the conversion raised
index_error(v) == IF v = "CL200A" THEN "ValueError" ELSE "SystemExit"

\* calc_lux(result), in thousandths: sign * mantissa * 10^(exponent digit - 4)
calc_lux_exc(result) ==
    IF ~HasIndex(result, 9) THEN "IndexError"
    ELSE IF ~FloatOk(Slice(result, 10, 14)) THEN "ValueError"
    ELSE IF ~HasIndex(result, 14) THEN "IndexError"
    ELSE IF ~FloatOk(<<Index(result, 14)>>) THEN "ValueError"
    ELSE "none"

calc_lux(result) ==
    LET sign == IF Index(result, 9) = "+" THEN 1 ELSE -1
        mantissa == FloatVal(Slice(result, 10, 14))
        e == DigitVal(Index(result, 14))
    IN  IF e >= 1 THEN sign * mantissa * Pow10(e - 1)
        ELSE sign * ((mantissa + 5) \div 10)

\* get_lux
get_lux(v, alive, rd) ==
    LET pm == perform_measurement(v, alive, "command_02", rd) IN
    IF pm.exc # "none" THEN pm_failed(pm)
    ELSE IF pm.none THEN Q(pm, <<>>, "TypeError", "", <<>>)
    ELSE LET x == calc_lux_exc(pm.str) IN
         IF x = "IndexError" THEN Q(pm, <<Parse("lux")>>, index_error(v), "", <<>>)
         ELSE IF x # "none" THEN Q(pm, <<Parse("lux")>>, x, "", <<>>)
         ELSE Q(pm, <<Parse("lux")>>, "none", "", <<calc_lux(pm.str)>>)

\* the body of get_xyz after perform_measurement returned a string
xyz_fields(pm) ==
    LET fx == Slice(pm.str, 10, 14)
        fy == Slice(pm.str, 16, 20)
        fz == Slice(pm.str, 22, 26)
    IN  IF ~FloatOk(fx) THEN Q(pm, <<Parse("x")>>, "ValueError", "", <<>>)
        ELSE IF ~FloatOk(fy) THEN Q(pm, <<Parse("x"), Parse("y")>>, "ValueError", "", <<>>)
        ELSE IF ~FloatOk(fz)
        THEN Q(pm, <<Parse("x"), Parse("y"), Parse("z")>>, "ValueError", "", <<>>)
        ELSE Q(pm, <<Parse("x"), Parse("y"), Parse("z")>>, "none", "",
               <<FloatVal(fx), FloatVal(fy), FloatVal(fz)>>)

\* get_xyz
get_xyz(v, alive, rd) ==
    LET pm == perform_measurement(v, alive, "command_01", rd) IN
    IF pm.exc # "none" THEN pm_failed(pm)
    ELSE IF pm.none THEN Q(pm, <<>>, "TypeError", "", <<>>)
    ELSE xyz_fields(pm)

\* the body of get_delta_uv after perform_measurement returned a string
delta_uv_fields(v, pm) ==
    LET x == calc_lux_exc(pm.str)
        ft == Slice(pm.str, 16, 20)
        fd == Slice(pm.str, 22, 26)
    IN  IF x = "IndexError" THEN Q(pm, <<Parse("lux")>>, index_error(v), "", <<>>)
        ELSE IF x # "none" THEN Q(pm, <<Parse("lux")>>, x, "", <<>>)
        ELSE IF ~FloatOk(ft)
        THEN Q(pm, <<Parse("lux"), Parse("tcp")>>, "ValueError", "", <<>>)
        ELSE IF ~FloatOk(fd)
        THEN Q(pm, <<Parse("lux"), Parse("tcp"), Parse("delta_uv")>>, "ValueError", "", <<>>)
        ELSE Q(pm, <<Parse("lux"), Parse("tcp"), Parse("delta_uv")>>, "none", "",
               <<calc_lux(pm.str), FloatVal(ft), FloatVal(fd)>>)

\* get_delta_uv
get_delta_uv(v, alive, rd) ==
    LET pm == perform_measurement(v, alive, "command_08", rd) IN
    IF pm.exc # "none" THEN pm_failed(pm)
    ELSE IF pm.none THEN Q(pm, <<>>, "TypeError", "", <<>>)
    ELSE delta_uv_fields(v, pm)

\* a direct call of perform_measurement, seen as a query returning the string
call_perform_measurement(v, alive, read_cmd, rd) ==
    LET pm == perform_measurement(v, alive, read_cmd, rd) IN
    [ops |-> pm.ops, exc |-> pm.exc, text |-> pm.text, val |-> pm.str,
     none |-> pm.none, alive |-> pm.alive, lost |-> pm.lost]

(***************************************************************************)
(* The driver before construction                                          *)
(***************************************************************************)
NoCall ==
    [query |-> "none", cmd |-> "-", rd |-> RdOk(<<>>), ops |-> <<>>, exc |-> "none",
     text |-> "", none |-> TRUE, val |-> <<>>, alive_before |-> TRUE,
     lost_before |-> FALSE]

\* no driver constructed yet
NoDriver ==
    /\ status = "new"
    /\ hs = Made(<<>>, "none", "", <<>>, <<>>)
    /\ is_alive = TRUE
    /\ wire = <<>>
    /\ last = NoCall
    /\ lost = FALSE
    /\ ncalls = 0

(***************************************************************************)
(* UT382: decode_raw                                                       *)
(***************************************************************************)
\* a & b and a | b on non-negative integers
RECURSIVE BitAnd(_, _)
BitAnd(a, b) ==
    IF a = 0 \/ b = 0 THEN 0
    ELSE (a % 2) * (b % 2) + 2 * BitAnd(a \div 2, b \div 2)

RECURSIVE BitOr(_, _)
BitOr(a, b) ==
    IF a = 0 THEN b
    ELSE IF b = 0 THEN a
    ELSE (IF a % 2 = 1 \/ b % 2 = 1 THEN 1 ELSE 0) + 2 * BitOr(a \div 2, b \div 2)

\* the messages decode_raw collects in `weird`
weird_length(b) == IF Len(b) # 33 THEN <<"wrong message length">> ELSE <<>>

\* the prefix test stopping one byte early
RECURSIVE weird_prefix_short(_, _)
weird_prefix_short(b, i) ==
    IF i >= Len(b) \/ i >= 29 THEN <<>>
    ELSE (IF BitAnd(b[i + 1], 240) # 48 THEN <<"bad byte prefix">> ELSE <<>>)
           \o weird_prefix_short(b, i + 1)

RECURSIVE weird_prefix(_, _)
weird_prefix(b, i) ==
    IF i >= Len(b) \/ i >= 30 THEN <<>>
    ELSE (IF BitAnd(b[i + 1], 240) # 48 THEN <<"bad byte prefix">> ELSE <<>>)
           \o weird_prefix(b, i + 1)

weird_30(b) == IF Len(b) > 30 /\ b[31] # 13 THEN <<"bad byte 30">> ELSE <<>>
weird_31(b) == IF Len(b) > 31 /\ b[32] # 10 THEN <<"bad byte 31">> ELSE <<>>

\* the loop with the two nibbles of a pair taken the other way round
RECURSIVE nibble_pairs_swapped(_, _)
nibble_pairs_swapped(b, i) ==
    IF i >= Len(b) \/ i >= 31 THEN <<>>
    ELSE <<BitOr(BitAnd(b[i + 1], 15), BitAnd(b[i], 15) * 16)>> \o nibble_pairs_swapped(b, i + 2)

\* the loop "for i in range(1, len(bs), 2)" of decode_raw, from index i on
RECURSIVE nibble_pairs(_, _)
nibble_pairs(b, i) ==
    IF i >= Len(b) \/ i >= 31 THEN <<>>
    ELSE <<BitOr(BitAnd(b[i], 15), BitAnd(b[i + 1], 15) * 16)>> \o nibble_pairs(b, i + 2)

\* decode_raw(bs): (bs2, bool(weird))
decode_raw(b) ==
    LET weird == weird_length(b) \o weird_prefix(b, 0) \o weird_30(b) \o weird_31(b) IN
    [payload |-> nibble_pairs(b, 1), malformed |-> (weird # <<>>), weird |-> weird]

\* The frame the meter sends for 15 display bytes p and a trailing byte t:
\* two bytes per display byte, low nibble first, each under the prefix 0x3,
\* then 0x0D 0x0A and the trailing byte.
RECURSIVE wire_nibbles(_, _)
wire_nibbles(p, k) ==
    IF k > Len(p) THEN <<>>
    ELSE <<48 + (p[k] % 16), 48 + (p[k] \div 16)>> \o wire_nibbles(p, k + 1)

wire_frame(p, t) == wire_nibbles(p, 1) \o <<13, 10, t>>

\* the byte list b with the byte at (0-based) index i replaced by x
Put(b, i, x) == [k \in 1..Len(b) |-> IF k = i + 1 THEN x ELSE b[k]]

\* the byte list b cut or padded (with well-formed bytes) to length n
Resize(b, n) == [k \in 1..n |-> IF k <= Len(b) THEN b[k] ELSE 48]

\* Inputs of decode_raw: frames of two display contents with one byte
\* replaced (the trailing byte, a terminator or a prefixed byte), at
\* several lengths
RawPayloads == {[k \in 1..15 |-> 0], [k \in 1..15 |-> (37 * k) % 256]}
RawTrailers == {0, 90}
RawDefects == {<<32, 0>>, <<32, 90>>, <<30, 10>>, <<31, 13>>, <<0, 32>>, <<29, 79>>}
RawLens == {0, 1, 7, 31, 32, 33, 34}
RawInputs ==
    {Resize(Put(wire_frame(p, 0), d[1], d[2]), n) :
        p \in RawPayloads, d \in RawDefects, n \in RawLens}

\* high nibbles a later change gives a byte
FlipNibbles == {3, 11}

\* changes to the byte list made between two calls of decode_raw
MaxFlips == 1

NoDecode == [done |-> FALSE, bs |-> <<>>, payload |-> <<>>, malformed |-> FALSE, weird |-> <<>>]

Decoded(b) ==
    LET r == decode_raw(b) IN
    [done |-> TRUE, bs |-> b, payload |-> r.payload, malformed |-> r.malformed,
     weird |-> r.weird]

RawIdle ==
    /\ bs = <<>>
    /\ raw_out = NoDecode
    /\ raw_prev = NoDecode
    /\ nflips = 0

(***************************************************************************)
(* UT382: listen, live_raw, live_sync                                      *)
(***************************************************************************)
\* timeout (line 16) and the single byte timeout of live_raw, in ms
timeout == 200
byte_timeout == 20

\* listen(n): the bytes com.read(n) returns, at most n of those that arrived
listen(n, arrived) == SubSeq(arrived, 1, Min(n, Len(arrived)))

\* what listen(n) leaves in the port
unread(n, arrived) == SubSeq(arrived, Min(n, Len(arrived)) + 1, Len(arrived))

\* What the meter puts on the line in one go: two frames, a frame with a
\* bad prefix, and the two parts of a frame that arrives in two pieces
GoodA == wire_frame([k \in 1..15 |-> (37 * k) % 256], 0)
GoodB == wire_frame([k \in 1..15 |-> (11 * k + 5) % 256], 90)
DevPieces == {GoodA, GoodB, Put(GoodA, 7, 71), SubSeq(GoodB, 1, 20), SubSeq(GoodB, 21, 33)}

\* pieces the meter sends in a behaviour
MaxSent == 3

NoRead == [n |-> 0, timeout |-> 0, got |-> 0, pc |-> "new"]
NoYield == [count |-> 0, payload |-> <<>>, from |-> <<>>, pc |-> "new"]

\* the record of a call listen(n) made at position pc that returned b
Listened(n, b) == [n |-> n, timeout |-> com_timeout, got |-> Len(b), pc |-> sync_pc]

\* the record of "yield reply" for the payload decoded from b
Yielded(payload, b) ==
    [count |-> sync_out.count + 1, payload |-> payload, from |-> b, pc |-> sync_pc]

SyncIdle ==
    /\ rx = <<>>
    /\ nsent = 0
    /\ com_timeout = timeout
    /\ sync_pc = "new"
    /\ err = TRUE
    /\ reply2 = <<>>
    /\ last_read = NoRead
    /\ sync_out = NoYield

CLIdle == variant = "CL200A" /\ NoDriver

(***************************************************************************)
(* UT382: decode_summary, decode_lux, live_monitor, live_average, core     *)
(* A value of the display table is a string: "0".."9" for the numbers,     *)
(* "L", "True", the unit names, and "None" for None.  A lux value is a     *)
(* record: null for None, is_int for a Python int, and the value num/den   *)
(* with den a power of ten (the factors 0.1, 0.01 and 0.001 multiply den;  *)
(* binary rounding of floats is left out).                                 *)
(***************************************************************************)
\* the seven-segment codes of the big digits
seg7 ==
    (63 :> "0") @@ (6 :> "1") @@ (91 :> "2") @@ (79 :> "3") @@ (102 :> "4") @@
    (109 :> "5") @@ (125 :> "6") @@ (7 :> "7") @@ (127 :> "8") @@ (111 :> "9") @@
    (56 :> "L")

\* ut382_utils.lcd_table: field name, index of the payload byte, mask and
\* lookup table (a list of pairs for a bitwise field)
lcd_table == <<
    [k |-> "big_1000",    n |-> 0, mask |-> 127, lut |-> seg7],
    [k |-> "big_1000ths", n |-> 0, mask |-> 128, lut |-> (128 :> "True")],
    [k |-> "big_100",     n |-> 1, mask |-> 127, lut |-> seg7],
    [k |-> "big_100ths",  n |-> 1, mask |-> 128, lut |-> (128 :> "True")],
    [k |-> "big_10",      n |-> 2, mask |-> 127, lut |-> seg7],
    [k |-> "big_10ths",   n |-> 2, mask |-> 128, lut |-> (128 :> "True")],
    [k |-> "big_1",       n |-> 3, mask |-> 127, lut |-> seg7],
    [k |-> "x10",         n |-> 3, mask |-> 128, lut |-> (128 :> "True")],
    [k |-> "unit",        n |-> 4, mask |-> 3,   lut |-> (1 :> "lux") @@ (2 :> "fc")],
    [k |-> "batt",        n |-> 5, mask |-> 1,   lut |-> (1 :> "True")],
    [k |-> "menu",        n |-> 5, mask |-> 2,   lut |-> (2 :> "True")],
    [k |-> "icons",       n |-> 6, mask |-> 15,
     lut |-> <<<<1, "max">>, <<2, "min">>, <<4, "hold">>, <<8, "auto">>>>] >>

bitwise_fields == {"icons"}

\* the value decode_lcd_byte stores under e's key for the byte b
RECURSIVE lcd_list(_, _, _)
lcd_list(lut, b2, j) ==
    IF j > Len(lut) THEN <<>>
    ELSE (IF BitAnd(lut[j][1], b2) # 0 THEN <<lut[j][2]>> ELSE <<>>) \o lcd_list(lut, b2, j + 1)

lcd_value(e, b) ==
    LET b2 == BitAnd(e.mask, b) IN
    IF e.k \in bitwise_fields THEN lcd_list(e.lut, b2, 1)
    ELSE IF b2 \in DOMAIN e.lut THEN e.lut[b2]
    ELSE "None"

\* decode_lcd_byte(i, b)
decode_lcd_byte(i, b) ==
    [k \in {lcd_table[j].k : j \in {j \in 1..Len(lcd_table) : lcd_table[j].n = i}} |->
        lcd_value(lcd_table[CHOOSE j \in 1..Len(lcd_table) : lcd_table[j].k = k], b)]

\* decode_summary(reply): summary.update(decode_lcd_byte(i, b)) for the
\* first n bytes of reply
RECURSIVE summary_update(_, _)
summary_update(reply, n) ==
    IF n = 0 THEN [k \in {} |-> "None"]
    ELSE decode_lcd_byte(n - 1, reply[n]) @@ summary_update(reply, n - 1)

decode_summary(reply) == summary_update(reply, Len(reply))

\* "if v" for a value of the table
Truthy(v) == v \notin {"None", "0"}

Null == [null |-> TRUE, is_int |-> FALSE, num |-> 0, den |-> 1]
Number(is_int, num, den) == [null |-> FALSE, is_int |-> is_int, num |-> num, den |-> den]

\* the digit test of decode_lux comparing the wrong pattern
null_pattern_blank == <<"None", "None", "L", "None">>

\* the digits decode_lux takes for an off-range display
null_pattern == <<"None", "0", "L", "None">>

\* the loop of decode_lux over reversed(digits): d * 10 ** i, None skipped
RECURSIVE digit_sum(_, _)
digit_sum(digits, j) ==
    IF j > Len(digits) THEN 0
    ELSE (IF digits[j] = "None" THEN 0 ELSE DigitVal(digits[j]) * Pow10(Len(digits) - j))
         + digit_sum(digits, j + 1)

\* decode_lux(summary): 'L' * 10 ** i is a str, and float + str raises
decode_lux(summary) ==
    LET unit == summary["unit"]
        digits == <<summary["big_1000"], summary["big_100"], summary["big_10"], summary["big_1"]>>
        f10 == Truthy(summary["big_10ths"])
        f100 == Truthy(summary["big_100ths"])
        f1000 == Truthy(summary["big_1000ths"])
        lux0 == digit_sum(digits, 1)
        den1 == IF f10 THEN 10 ELSE 1
        den2 == IF f100 THEN den1 * 100 ELSE den1
        den3 == IF f1000 THEN den2 * 1000 ELSE den2
        lux4 == IF Truthy(summary["x10"]) THEN lux0 * 10 ELSE lux0
    IN  IF digits = null_pattern
        THEN [exc |-> "none", lux |-> Null, unit |-> unit]
        ELSE IF \E j \in 1..4 : digits[j] = "L"
        THEN [exc |-> "TypeError", lux |-> Null, unit |-> unit]
        ELSE IF ~(f10 \/ f100 \/ f1000)
        THEN [exc |-> "none", lux |-> Number(TRUE, lux4 \div den3, 1), unit |-> unit]
        ELSE [exc |-> "none", lux |-> Number(FALSE, lux4, den3), unit |-> unit]

\* What the display shows, and the 15 payload bytes the meter sends for it
Display(digits, f10, f100, f1000, x10, unit, batt, menu) ==
    [digits |-> digits, f10 |-> f10, f100 |-> f100, f1000 |-> f1000, x10 |-> x10,
     unit |-> unit, batt |-> batt, menu |-> menu]

seg_code(c) == IF c = "None" THEN 0 ELSE CHOOSE b \in DOMAIN seg7 : seg7[b] = c

bit(f, b) == IF f THEN b ELSE 0

lcd_payload(d) ==
    <<seg_code(d.digits[1]) + bit(d.f1000, 128), seg_code(d.digits[2]) + bit(d.f100, 128),
      seg_code(d.digits[3]) + bit(d.f10, 128), seg_code(d.digits[4]) + bit(d.x10, 128),
      (IF d.unit = "lux" THEN 1 ELSE 2), bit(d.batt, 1) + bit(d.menu, 2),
      5, 0, 0, 0, 0, 0, 0, 0, 0>>

Lux523 == Display(<<"None", "5", "2", "3">>, FALSE, FALSE, FALSE, FALSE, "lux", FALSE, FALSE)
Fc52_3 == Display(<<"None", "5", "2", "3">>, TRUE, FALSE, FALSE, FALSE, "fc", TRUE, FALSE)
OffRange == Display(<<"None", "0", "L", "None">>, FALSE, FALSE, FALSE, FALSE, "lux", FALSE, FALSE)
OffRangeFc == Display(<<"None", "0", "L", "None">>, FALSE, TRUE, FALSE, TRUE, "fc", TRUE, FALSE)
InMenu == Display(<<"None", "None", "4", "0">>, FALSE, FALSE, FALSE, TRUE, "lux", TRUE, TRUE)
BlankL == Display(<<"None", "1", "L", "None">>, FALSE, FALSE, FALSE, FALSE, "lux", FALSE, FALSE)
Displays == {Lux523, Fc52_3, OffRange, OffRangeFc, InMenu, BlankL}

\* what a display can turn into: the light goes off range and comes back
\* under the other unit, the menu is opened and left
Turns(d) ==
    IF d = Lux523 THEN {OffRange, BlankL}
    ELSE IF d = OffRange THEN {Fc52_3}
    ELSE IF d = Fc52_3 THEN {InMenu, OffRangeFc}
    ELSE {Lux523}

\* options of core: --moving-average N (0 when not given) and --delta
Options ==
    {[moving |-> 0, delta |-> FALSE], [moving |-> 0, delta |-> TRUE],
     [moving |-> 1, delta |-> FALSE], [moving |-> 2, delta |-> FALSE]}

\* frames live_sync yields and changes of the display in a behaviour
MaxFrames == 17
MaxChanges == 2

\* one iteration of live_monitor's loop for the payload reply, the t-th
live_monitor(reply, t) ==
    LET yielded(summary, r) ==
            [warn |-> Truthy(summary["batt"]),
             skip |-> Truthy(summary["menu"]),
             exc |-> IF Truthy(summary["menu"]) THEN "none" ELSE r.exc,
             data |-> [time |-> t, lux |-> r.lux, unit |-> r.unit]]
        decoded(summary) == yielded(summary, decode_lux(summary))
    IN  decoded(decode_summary(reply))

\* sum(history) as a fraction over the largest denominator in it
RECURSIVE max_den(_, _)
max_den(h, j) ==
    IF j > Len(h) THEN 1
    ELSE LET m == max_den(h, j + 1) IN IF h[j].den > m THEN h[j].den ELSE m

RECURSIVE sum_over(_, _, _)
sum_over(h, d, j) ==
    IF j > Len(h) THEN 0 ELSE h[j].num * (d \div h[j].den) + sum_over(h, d, j + 1)

sum(h) == Number(FALSE, sum_over(h, max_den(h, 1), 1), max_den(h, 1))

\* the window test of live_average counting one reading short
window_full_early(h, duration) == ~(Len(h) + 1 < duration * 8)

\* "len(history) < samples" fails
window_full(h, duration) == ~(Len(h) < duration * 8)

\* one iteration of live_average's loop for the reading data: the new
\* history and the record yielded, if any
live_average(hist, data, duration) ==
    IF data.lux.null
    THEN [history |-> hist, yields |-> FALSE, data |-> data]
    ELSE LET h == Append(hist, data.lux) IN
         IF ~window_full(h, duration)
         THEN [history |-> h, yields |-> FALSE, data |-> data]
         ELSE [history |-> <<>>, yields |-> TRUE,
               data |-> [time |-> data.time, lux |-> data.lux, unit |-> data.unit,
                         ave_lux |-> Number(FALSE, sum(h).num, sum(h).den * Len(h))]]

\* num % data[k]: '%i' of an int, '%.2f' of a float (in hundredths)
core_format(v) ==
    IF v.is_int THEN [num |-> "%i", shown |-> v.num \div v.den]
    ELSE [num |-> "%.2f", shown |-> (200 * v.num + v.den) \div (2 * v.den)]

NoRow == [num |-> "none", shown |-> 0]

\* the body of core's loop for the value v = data[k]
core_row(v, old_, delta) ==
    IF v.null THEN [old |-> old_, writes |-> FALSE, lux |-> NoRow]
    ELSE LET new == core_format(v) IN
         IF delta /\ new = old_ THEN [old |-> old_, writes |-> FALSE, lux |-> new]
         ELSE [old |-> new, writes |-> TRUE, lux |-> new]

NoData == [time |-> 0, lux |-> Null, unit |-> "None"]

MonIdle ==
    /\ options = [moving |-> 0, delta |-> FALSE]
    /\ shown = Lux523
    /\ nchanges = 0
    /\ nframes = 0
    /\ mon_exc = "none"
    /\ nyields = 0
    /\ nwarns = 0
    /\ nmenus = 0
    /\ reading = NoData
    /\ history = <<>>
    /\ readings = <<>>
    /\ emitted = <<>>
    /\ old = NoRow
    /\ nrows = 0
    /\ row = NoData
    /\ reading_units = <<>>

(***************************************************************************)
(* UT382: init and cleanup                                                 *)
(* `handles` lists the Serial objects init has opened, each with its port  *)
(* and whether it is open; `com` is the index of the one the module global *)
(* is bound to, 0 for None.  A Serial object no name is bound to any more  *)
(* is closed when the interpreter finalizes it, which may be at once,      *)
(* later or never.                                                         *)
(***************************************************************************)
Ports == {"COM3", "COM4"}

\* calls of init and cleanup in a behaviour
MaxComCalls == 4

\* the handles init opened that are still open
OpenHandles == {j \in 1..Len(handles) : handles[j].open}

ComIdle ==
    /\ com = 0
    /\ handles = <<>>
    /\ calls = <<>>
    /\ com_exc = "none"

(***************************************************************************)
(* State machine of the CL-200A drivers                                    *)
(***************************************************************************)
Init ==
    /\ variant \in Variants
    /\ NoDriver
    /\ RawIdle
    /\ SyncIdle
    /\ MonIdle
    /\ ComIdle

\* luxmeter = CL200A() / ChromaMeterKonica()
Construct ==
    /\ status = "new"
    /\ \E openOk \in BOOLEAN, c1 \in ConnResponses, c2 \in ConnResponses,
          e1 \in ExtResponses, e2 \in ExtResponses :
         LET r == init_(variant, openOk, c1, c2, e1, e2) IN
           /\ wire' = r.ops
           /\ hs' = r
           /\ status' = IF r.exc = "none" THEN "ready" ELSE "failed"
    /\ is_alive' = TRUE
    /\ UNCHANGED <<variant, last, lost, ncalls>>
    /\ UNCHANGED notcl

\* the state after a call of `query` that gave the result r
Called(query, cmd, rd, r) ==
    /\ wire' = wire \o SelectSeq(r.ops, IsSerial)
    /\ last' = [query |-> query, cmd |-> cmd, rd |-> rd, ops |-> r.ops, exc |-> r.exc,
                text |-> r.text, none |-> r.none, val |-> r.val,
                alive_before |-> is_alive, lost_before |-> lost]
    /\ is_alive' = r.alive
    /\ lost' = (lost \/ r.lost)
    /\ status' = IF r.exc = "SystemExit" THEN "exited" ELSE status
    /\ ncalls' = ncalls + 1
    /\ UNCHANGED <<variant, hs>>
    /\ UNCHANGED notcl

CanCall == status = "ready" /\ ncalls < MaxCalls

PerformMeasurement ==
    /\ CanCall
    /\ \E cmd \in ReadCmds, rd \in MeasResponses :
         Called("perform_measurement", cmd, rd,
                call_perform_measurement(variant, is_alive, cmd, rd))

GetLux ==
    /\ CanCall
    /\ \E rd \in MeasResponses :
         Called("get_lux", "command_02", rd, get_lux(variant, is_alive, rd))

GetXyz ==
    /\ CanCall
    /\ \E rd \in MeasResponses :
         Called("get_xyz", "command_01", rd, get_xyz(variant, is_alive, rd))

GetDeltaUv ==
    /\ CanCall
    /\ \E rd \in MeasResponses :
         Called("get_delta_uv", "command_08", rd, get_delta_uv(variant, is_alive, rd))

Next ==
    \/ Construct
    \/ PerformMeasurement
    \/ GetLux
    \/ GetXyz
    \/ GetDeltaUv

Spec == Init /\ [][Next]_vars

(***************************************************************************)
(* State machine of decode_raw                                             *)
(***************************************************************************)
RawInit ==
    /\ CLIdle
    /\ SyncIdle
    /\ MonIdle
    /\ ComIdle
    /\ bs \in RawInputs
    /\ raw_out = NoDecode
    /\ raw_prev = NoDecode
    /\ nflips = 0

\* decode_raw(bs) on the byte list at hand
DecodeRaw ==
    /\ ~raw_out.done
    /\ raw_out' = Decoded(bs)
    /\ UNCHANGED <<bs, raw_prev, nflips>>
    /\ UNCHANGED notraw

\* decode_raw(bs) after the high nibble of one of the bytes 0..29 changed
DecodeFlipped ==
    /\ raw_out.done
    /\ nflips < MaxFlips
    /\ \E i \in 0..29, h \in FlipNibbles :
         /\ i < Len(bs)
         /\ bs[i + 1] \div 16 # h
         /\ bs' = Put(bs, i, 16 * h + (bs[i + 1] % 16))
    /\ raw_prev' = raw_out
    /\ raw_out' = Decoded(bs')
    /\ nflips' = nflips + 1
    /\ UNCHANGED notraw

\* decode_raw(bs) after the trailing byte 32 changed
DecodeRetrailed ==
    /\ raw_out.done
    /\ nflips < MaxFlips
    /\ Len(bs) > 32
    /\ \E t \in RawTrailers \cup {13} :
         /\ bs[33] # t
         /\ bs' = Put(bs, 32, t)
    /\ raw_prev' = raw_out
    /\ raw_out' = Decoded(bs')
    /\ nflips' = nflips + 1
    /\ UNCHANGED notraw

RawNext ==
    \/ DecodeRaw
    \/ DecodeFlipped
    \/ DecodeRetrailed

SpecRaw == RawInit /\ [][RawNext]_vars

(***************************************************************************)
(* State machine of live_sync                                              *)
(* sync_pc: "new" before the first next(), "raw" before a listen(1) of     *)
(* live_raw, "steady" before the listen(33) of line 170, "yield_resync"    *)
(* and "yield_steady" while suspended at the yield of line 166 and 177.    *)
(* live_raw's error_countdown and msg_shown only select what is printed    *)
(* while nothing arrives and are left out.                                 *)
(***************************************************************************)
SyncInit ==
    /\ CLIdle
    /\ RawIdle
    /\ SyncIdle
    /\ MonIdle
    /\ ComIdle

\* the meter sends a piece
DevSend ==
    /\ nsent < MaxSent
    /\ \E piece \in DevPieces : rx' = rx \o piece
    /\ nsent' = nsent + 1
    /\ UNCHANGED <<com_timeout, sync_pc, err, reply2, last_read, sync_out>>
    /\ UNCHANGED notsync

\* "for bs in live_raw()" is entered: live_raw starts
EnterResync ==
    /\ com_timeout' = byte_timeout
    /\ reply2' = <<>>
    /\ sync_pc' = "raw"

\* a resumption that leaves com.timeout as live_raw set it
SyncResume_keeps_timeout ==
    /\ sync_pc \in {"new", "yield_resync", "yield_steady"}
    /\ IF sync_pc = "new"
       THEN EnterResync /\ err' = TRUE
       ELSE /\ sync_pc' = "steady"
            /\ UNCHANGED <<err, reply2, com_timeout>>
    /\ UNCHANGED <<rx, nsent, last_read, sync_out>>
    /\ UNCHANGED notsync

\* next(live_sync): up to the next blocking read
SyncResume ==
    /\ sync_pc \in {"new", "yield_resync", "yield_steady"}
    /\ IF sync_pc = "new"
       THEN EnterResync /\ err' = TRUE
       ELSE /\ com_timeout' = (IF sync_pc = "yield_resync" THEN timeout ELSE com_timeout)
            /\ sync_pc' = "steady"
            /\ UNCHANGED <<err, reply2>>
    /\ UNCHANGED <<rx, nsent, last_read, sync_out>>
    /\ UNCHANGED notsync

\* the loop body yielding whatever decode_raw returned
ResyncChunk_yields_all(chunk) ==
    IF Len(chunk) # 33
    THEN /\ reply2' = <<>>
         /\ UNCHANGED <<err, sync_pc, sync_out>>
    ELSE LET r == decode_raw(chunk) IN
         /\ err' = r.malformed
         /\ reply2' = <<>>
         /\ sync_pc' = "yield_resync"
         /\ sync_out' = Yielded(r.payload, chunk)

\* live_sync's loop body for the chunk live_raw yields (lines 162-168)
ResyncChunk(chunk) ==
    IF Len(chunk) # 33
    THEN /\ reply2' = <<>>
         /\ UNCHANGED <<err, sync_pc, sync_out>>
    ELSE LET r == decode_raw(chunk) IN
         /\ err' = r.malformed
         /\ reply2' = <<>>
         /\ IF r.malformed
            THEN UNCHANGED <<sync_pc, sync_out>>
            ELSE /\ sync_pc' = "yield_resync"
                 /\ sync_out' = Yielded(r.payload, chunk)

\* one listen(1) of live_raw and what follows it up to the next read
ListenOne ==
    /\ sync_pc = "raw"
    /\ LET reply == listen(1, rx) IN
         /\ last_read' = Listened(1, reply)
         /\ rx' = unread(1, rx)
         /\ IF reply # <<>>
            THEN /\ reply2' = reply2 \o reply
                 /\ UNCHANGED <<err, sync_pc, sync_out>>
            ELSE IF reply2 = <<>>
            THEN UNCHANGED <<err, sync_pc, sync_out, reply2>>
            ELSE ResyncChunk(reply2)
    /\ UNCHANGED <<nsent, com_timeout>>
    /\ UNCHANGED notsync

\* the steady read that goes on with fixed-size reads after a malformed frame
ListenFrame_stays ==
    /\ sync_pc = "steady"
    /\ LET b == listen(33, rx)
           r == decode_raw(b)
       IN  /\ last_read' = Listened(33, b)
           /\ rx' = unread(33, rx)
           /\ IF Len(b) # 33
              THEN /\ err' = TRUE
                   /\ EnterResync
                   /\ UNCHANGED sync_out
              ELSE /\ err' = r.malformed
                   /\ IF r.malformed
                      THEN UNCHANGED <<sync_pc, sync_out, com_timeout, reply2>>
                      ELSE /\ sync_pc' = "yield_steady"
                           /\ sync_out' = Yielded(r.payload, b)
                           /\ UNCHANGED <<com_timeout, reply2>>
    /\ UNCHANGED nsent
    /\ UNCHANGED notsync

\* the listen(33) of line 170 and what follows it up to the next read
ListenFrame ==
    /\ sync_pc = "steady"
    /\ LET b == listen(33, rx)
           r == decode_raw(b)
       IN  /\ last_read' = Listened(33, b)
           /\ rx' = unread(33, rx)
           /\ IF Len(b) # 33
              THEN /\ err' = TRUE
                   /\ EnterResync
                   /\ UNCHANGED sync_out
              ELSE /\ err' = r.malformed
                   /\ IF r.malformed
                      THEN EnterResync /\ UNCHANGED sync_out
                      ELSE /\ sync_pc' = "yield_steady"
                           /\ sync_out' = Yielded(r.payload, b)
                           /\ UNCHANGED <<com_timeout, reply2>>
    /\ UNCHANGED nsent
    /\ UNCHANGED notsync

SyncNext ==
    \/ DevSend
    \/ SyncResume
    \/ ListenOne
    \/ ListenFrame

SpecSync == SyncInit /\ [][SyncNext]_vars

(***************************************************************************)
(* State machine of core over live_monitor and live_average                *)
(* One step is one iteration of live_monitor's loop for the payload of the *)
(* display shown, with what its consumers do with the reading before the   *)
(* next payload is asked for.                                              *)
(***************************************************************************)
MonInit ==
    /\ CLIdle
    /\ RawIdle
    /\ SyncIdle
    /\ ComIdle
    /\ options \in Options
    /\ shown \in Displays
    /\ nchanges = 0
    /\ nframes = 0
    /\ mon_exc = "none"
    /\ nyields = 0
    /\ nwarns = 0
    /\ nmenus = 0
    /\ reading = NoData
    /\ history = <<>>
    /\ readings = <<>>
    /\ emitted = <<>>
    /\ old = NoRow
    /\ nrows = 0
    /\ row = NoData
    /\ reading_units = <<>>

\* the display of the meter changes
DisplayChange ==
    /\ mon_exc = "none"
    /\ nchanges < MaxChanges
    /\ shown' \in Turns(shown)
    /\ nchanges' = nchanges + 1
    /\ UNCHANGED <<options, nframes, mon_exc, nyields, nwarns, nmenus, reading, history,
                   readings, emitted, old, nrows, row, reading_units>>
    /\ UNCHANGED notmon

\* live_monitor's part of a step: the counters and the reading it yields
MonitorFrame(m) ==
    /\ nframes' = nframes + 1
    /\ nwarns' = nwarns + (IF m.warn THEN 1 ELSE 0)
    /\ nmenus' = nmenus + (IF m.skip THEN 1 ELSE 0)
    /\ mon_exc' = m.exc
    /\ nyields' = nyields + (IF m.skip \/ m.exc # "none" THEN 0 ELSE 1)
    /\ reading' = (IF m.skip \/ m.exc # "none" THEN reading ELSE m.data)

\* core writes the row for data whose value is v
WriteRow(data, v) ==
    \E c \in {core_row(v, old, options.delta)} :
    /\ old' = c.old
    /\ nrows' = nrows + (IF c.writes THEN 1 ELSE 0)
    /\ row' = (IF c.writes THEN [time |-> data.time, lux |-> c.lux, unit |-> data.unit] ELSE row)

\* core with --monitor or --delta: source = live_monitor, k = 'lux'
CoreMonitor ==
    /\ options.moving = 0
    /\ mon_exc = "none"
    /\ nframes < MaxFrames
    /\ \E m \in {live_monitor(lcd_payload(shown), nframes + 1)} :
         /\ MonitorFrame(m)
         /\ IF m.skip \/ m.exc # "none"
            THEN UNCHANGED <<old, nrows, row>>
            ELSE WriteRow(m.data, m.data.lux)
    /\ UNCHANGED <<options, shown, nchanges, history, readings, emitted, reading_units>>
    /\ UNCHANGED notmon

\* core with --moving-average: source = live_average, k = 'ave_lux'
CoreAverage ==
    /\ options.moving > 0
    /\ mon_exc = "none"
    /\ nframes < MaxFrames
    /\ \E m \in {live_monitor(lcd_payload(shown), nframes + 1)} :
         /\ MonitorFrame(m)
         /\ IF m.skip \/ m.exc # "none"
            THEN UNCHANGED <<history, readings, emitted, old, nrows, row, reading_units>>
            ELSE \E a \in {live_average(history, m.data, options.moving)} :
                 /\ history' = a.history
                 /\ readings' = (IF m.data.lux.null THEN readings ELSE Append(readings, m.data.lux))
                 /\ reading_units' = (IF m.data.lux.null THEN reading_units
                                      ELSE Append(reading_units, m.data.unit))
                 /\ IF a.yields
                    THEN /\ emitted' = Append(emitted, a.data)
                         /\ WriteRow(a.data, a.data.ave_lux)
                    ELSE UNCHANGED <<emitted, old, nrows, row>>
    /\ UNCHANGED <<options, shown, nchanges>>
    /\ UNCHANGED notmon

MonNext ==
    \/ DisplayChange
    \/ CoreMonitor
    \/ CoreAverage

SpecMon == MonInit /\ [][MonNext]_vars

(***************************************************************************)
(* State machine of init and cleanup                                       *)
(***************************************************************************)
ComInit ==
    /\ CLIdle
    /\ RawIdle
    /\ SyncIdle
    /\ MonIdle
    /\ ComIdle

\* init(port): Serial(port, ...) opens the port or raises; on success the
\* global is bound to the new object and the old one is left as it is
init(port, opens) ==
    /\ Len(calls) < MaxComCalls
    /\ calls' = Append(calls, "init")
    /\ IF opens
       THEN /\ handles' = Append(handles, [port |-> port, open |-> TRUE])
            /\ com' = Len(handles) + 1
            /\ com_exc' = "none"
       ELSE /\ com_exc' = "SerialException"
            /\ UNCHANGED <<com, handles>>
    /\ UNCHANGED notcom

\* cleanup(): com.close()
cleanup ==
    /\ Len(calls) < MaxComCalls
    /\ calls' = Append(calls, "cleanup")
    /\ IF com = 0
       THEN /\ com_exc' = "AttributeError"
            /\ UNCHANGED handles
       ELSE /\ com_exc' = "none"
            \* Serial.close() does nothing on a handle closed already
            /\ handles' = [handles EXCEPT ![com].open = FALSE]
    /\ UNCHANGED com
    /\ UNCHANGED notcom

\* the interpreter finalizes a Serial object that is no longer bound
Finalize ==
    /\ \E j \in OpenHandles :
         /\ j # com
         /\ handles' = [handles EXCEPT ![j].open = FALSE]
    /\ UNCHANGED <<com, calls, com_exc>>
    /\ UNCHANGED notcom

ComNext ==
    \/ \E port \in Ports, opens \in BOOLEAN : init(port, opens)
    \/ cleanup
    \/ Finalize

SpecCom == ComInit /\ [][ComNext]_vars

(***************************************************************************)
(* Properties                                                              *)
(***************************************************************************)
\* character at offset k of s is one of cs
At(s, k, cs) == Len(s) > k /\ s[k + 1] \in cs

Constructed == status \in {"ready", "exited"}
ConstructionFailed == status = "failed"
WasCalled == last.query # "none"
SerialOps(ops) == SelectSeq(ops, IsSerial)
DidRead == \E i \in 1..Len(last.ops) : IsRead(last.ops[i])
GotLine == WasCalled /\ DidRead /\ ~last.rd.err
Writes(cmd) == {i \in 1..Len(wire) : IsWrite(wire[i]) /\ wire[i].cmd = cmd}

\* C1: whenever a response to command_40 read during construction has "1",
\* "2" or "3" at offset 6, construction has failed with the power-cycle text,
\* no driver exists, and that read is the last operation on the port.
C1_FatalExtErrAbortsConstruction ==
    \A i \in 1..Len(hs.reads) :
        At(hs.reads[i], 6, {"1", "2", "3"}) =>
            /\ ConstructionFailed
            /\ hs.exc = "ConnectionError"
            /\ hs.text = PowerCycleText
            /\ i = Len(hs.reads)
            /\ IsRead(wire[Len(wire)])

C1_Witness ==
    /\ Len(hs.reads) = 2
    /\ At(hs.reads[2], 6, {"1", "2", "3"})
    /\ ConstructionFailed

\* C2: construction completes only if the last response read for command_40
\* has none of "1", "2", "3", "4" at offset 6.
C2_ReadyOnlyIfExtModeAccepted ==
    Constructed =>
        /\ Len(hs.reads) > 0
        /\ ~At(hs.reads[Len(hs.reads)], 6, {"1", "2", "3", "4"})

\* C3 (as claimed): when the first response to command_54 does not contain
\* the command_54r acknowledgement, command_54 is written a second time.
C3_SecondAttemptOnBadAck ==
    (Len(hs.conn) > 0 /\ ~Contains(command_54r, hs.conn[1])) =>
        Cardinality(Writes("command_54")) = 2

\* C3 (amended): once the port is open, command_54 is written exactly once
\* and at most one response to it is read, whatever that response holds;
\* when the read succeeds the next write is command_55.
C3_SingleAttempt ==
    (status # "new" /\ Len(wire) > 0) =>
        /\ Cardinality(Writes("command_54")) = 1
        /\ Len(hs.conn) <= 1
        /\ IsWrite(wire[2]) /\ wire[2].cmd = "command_54"
        /\ Len(hs.conn) = 1 =>
             /\ Len(wire) >= 8
             /\ \A i \in 3..7 : ~IsWrite(wire[i])
             /\ IsWrite(wire[8]) /\ wire[8].cmd = "command_55"

C3_Witness ==
    /\ Constructed
    /\ Len(hs.conn) = 1
    /\ ~Contains(command_54r, hs.conn[1])
    /\ Cardinality(Writes("command_54")) = 1

\* C4: a call of perform_measurement on a live driver resets the input and
\* the output buffer, writes command_40r with settle 0.5 s, writes the read
\* command with settle 0, reads one line, and does nothing else on the port.
C4_MeasurementExchangeOrder ==
    (WasCalled /\ (variant = "CL200A" \/ last.alive_before)) =>
        SerialOps(last.ops) =
            << Ev("reset_input_buffer", "-", 0), Ev("reset_output_buffer", "-", 0),
               Ev("write", "command_40r", 500), Ev("write", last.cmd, 0),
               Ev("readline", "-", 0) >>

C4_Witness ==
    /\ WasCalled
    /\ last.alive_before
    /\ ncalls = 2
    /\ Len(SerialOps(last.ops)) = 5

\* C5: when the line read by perform_measurement is empty, it returns None
\* without raising, check_measurement is not run, is_alive is unchanged.
C5_EmptyLineIsNoData ==
    (GotLine /\ last.rd.data = <<>>) =>
        /\ \A i \in 1..Len(last.ops) : last.ops[i].op # "check_measurement"
        /\ is_alive = last.alive_before
        /\ last.query = "perform_measurement" => (last.exc = "none" /\ last.none)

C5_Witness ==
    /\ GotLine
    /\ last.rd.data = <<>>
    /\ last.query = "perform_measurement"
    /\ last.none

\* C6: for a non-empty response check_measurement runs before any field is
\* parsed; with "1", "2" or "3" at offset 6 the query fails with the
\* power-cycle error, parses nothing and returns nothing.
C6_CheckBeforeParse ==
    (GotLine /\ last.rd.data # <<>>) =>
        /\ \E i \in 1..Len(last.ops) :
              /\ last.ops[i].op = "check_measurement"
              /\ \A j \in 1..Len(last.ops) : last.ops[j].op = "parse" => i < j
        /\ At(last.rd.data, 6, {"1", "2", "3"}) =>
              /\ last.exc = "DeviceError"
              /\ last.text = PowerCycleText
              /\ last.none
              /\ \A j \in 1..Len(last.ops) : last.ops[j].op # "parse"

C6_Witness ==
    /\ GotLine
    /\ last.query = "get_xyz"
    /\ At(last.rd.data, 6, {"1", "2", "3"})
    /\ last.exc = "DeviceError"

\* C7: for a non-empty response that passes validation and is shorter than
\* 26 characters, get_xyz fails with an error.
C7_ShortFrameFailsGetXyz ==
    ( /\ GotLine
      /\ last.query = "get_xyz"
      /\ last.rd.data # <<>>
      /\ check_measurement(last.rd.data).exc = "none"
      /\ Len(last.rd.data) < 26 ) =>
        last.exc # "none"

\* C8: in the CL200A class, a call made after a perform_measurement failed
\* on a lost connection is refused without any reset, write or read.
C8_DeadAfterConnectionLost ==
    (variant = "CL200A" /\ WasCalled /\ last.lost_before) =>
        /\ SerialOps(last.ops) = <<>>
        /\ last.exc # "none"

\* C9: in ChromaMeterKonica is_alive is true after construction, false once
\* the readline of perform_measurement raised, never true again, and while
\* it is false perform_measurement touches nothing on the port and returns None.
C9_AliveAfterConstruction ==
    (variant = "Chroma" /\ Constructed /\ ncalls = 0) => is_alive

C9_DeadOnTransportError ==
    (variant = "Chroma" /\ WasCalled /\ DidRead /\ last.rd.err) => ~is_alive

C9_DeadDoesNothing ==
    (variant = "Chroma" /\ WasCalled /\ ~last.alive_before) =>
        /\ SerialOps(last.ops) = <<>>
        /\ ~is_alive
        /\ last.query = "perform_measurement" => (last.exc = "none" /\ last.none)

C9_StickyDeadState ==
    /\ [](C9_AliveAfterConstruction /\ C9_DeadOnTransportError /\ C9_DeadDoesNothing)
    /\ [][(variant = "Chroma" /\ ~is_alive) => ~is_alive']_vars

C9_Witness ==
    /\ variant = "Chroma"
    /\ last.query = "perform_measurement"
    /\ ~last.alive_before
    /\ ~is_alive

\* C10: before every write there is a reset of the input buffer and a reset
\* of the output buffer later than the last readline, or than the opening
\* of the port when nothing was read yet.
ExchangeStart(i) ==
    CHOOSE j \in 0..(i - 1) :
        /\ (j = 0 \/ wire[j].op \in {"open", "readline"})
        /\ \A k \in (j + 1)..(i - 1) : wire[k].op \notin {"open", "readline"}

C10_ResetBeforeEveryExchange ==
    \A i \in 1..Len(wire) :
        IsWrite(wire[i]) =>
            /\ \E k \in (ExchangeStart(i) + 1)..(i - 1) : wire[k].op = "reset_input_buffer"
            /\ \E k \in (ExchangeStart(i) + 1)..(i - 1) : wire[k].op = "reset_output_buffer"

\* the byte lists a and b have the same length and differ at the (0-based)
\* index i only
DifferOnlyAt(a, b, i) ==
    /\ Len(a) = Len(b)
    /\ i < Len(a)
    /\ a[i + 1] # b[i + 1]
    /\ \A k \in 1..Len(a) : k # i + 1 => a[k] = b[k]

WellFormed33(b) ==
    /\ Len(b) = 33
    /\ \A i \in 1..30 : b[i] \div 16 = 3
    /\ b[31] = 13
    /\ b[32] = 10

\* C11: decode_raw reports a 33-byte list well-formed exactly when bytes
\* 0..29 all have high nibble 3, byte 30 is 0x0D and byte 31 is 0x0A; a
\* well-formed frame with the high nibble of one of bytes 0..29 changed is
\* malformed; byte 32 never changes the result; any other length is malformed.
C11_MalformedIffBadFrame ==
    raw_out.done =>
        /\ raw_out.malformed = ~WellFormed33(raw_out.bs)
        /\ Len(raw_out.bs) # 33 => raw_out.malformed
        /\ \A i \in 0..29 :
             ( /\ raw_prev.done
               /\ WellFormed33(raw_prev.bs)
               /\ DifferOnlyAt(raw_prev.bs, raw_out.bs, i)
               /\ raw_prev.bs[i + 1] % 16 = raw_out.bs[i + 1] % 16 ) =>
                 raw_out.malformed
        /\ (raw_prev.done /\ DifferOnlyAt(raw_prev.bs, raw_out.bs, 32)) =>
             /\ raw_out.malformed = raw_prev.malformed
             /\ raw_out.payload = raw_prev.payload

C11_Witness ==
    /\ raw_prev.done
    /\ ~raw_prev.malformed
    /\ raw_out.done
    /\ raw_out.malformed
    /\ DifferOnlyAt(raw_prev.bs, raw_out.bs, 29)

\* the payload of a frame: byte k from the low nibbles of bytes 2k and 2k+1
PayloadOf(b) == [k \in 1..15 |-> (b[2 * k - 1] % 16) + 16 * (b[2 * k] % 16)]

\* C12: every payload live_sync yields was decoded from exactly 33 bytes
\* that form a well-formed frame, in the resync and in the steady phase.
C12_YieldsOnlyWellFormed ==
    sync_out.count > 0 =>
        /\ Len(sync_out.from) = 33
        /\ WellFormed33(sync_out.from)
        /\ sync_out.payload = PayloadOf(sync_out.from)

C12_Witness ==
    /\ sync_out.count = 2
    /\ sync_out.pc = "steady"
    /\ nsent = 3

\* C13: live_sync starts in the resync phase; it leaves it exactly when a
\* chunk of 33 bytes decodes well-formed; in the steady phase every read is
\* one 33-byte read; a steady read yields its frame when it is a well-formed
\* 33-byte frame and otherwise drops it and returns to the resync phase.
SyncStep == nsent' = nsent /\ syncvars' # syncvars

C13_ReadSizes ==
    /\ sync_pc = "new" => (err /\ last_read = NoRead)
    /\ last_read.pc = "raw" => last_read.n = 1
    /\ last_read.pc = "steady" => last_read.n = 33
    /\ last_read.pc \in {"new", "raw", "steady"}

C13_LeavesResync ==
    (SyncStep /\ sync_pc = "raw") =>
        IF rx = <<>> /\ Len(reply2) = 33 /\ WellFormed33(reply2)
        THEN /\ sync_pc' = "yield_resync"
             /\ sync_out'.count = sync_out.count + 1
             /\ sync_out'.from = reply2
        ELSE /\ sync_pc' = "raw"
             /\ sync_out' = sync_out

C13_SteadyRead ==
    (SyncStep /\ sync_pc = "steady") =>
        /\ last_read'.n = 33
        /\ IF Len(rx) >= 33 /\ WellFormed33(SubSeq(rx, 1, 33))
           THEN /\ sync_pc' = "yield_steady"
                /\ sync_out'.count = sync_out.count + 1
                /\ sync_out'.from = SubSeq(rx, 1, 33)
           ELSE /\ sync_pc' = "raw"
                /\ sync_out' = sync_out

C13_Resumes ==
    (SyncStep /\ sync_pc \in {"yield_resync", "yield_steady"}) =>
        /\ sync_pc' = "steady"
        /\ last_read' = last_read

C13_Hysteresis ==
    /\ []C13_ReadSizes
    /\ [][C13_LeavesResync /\ C13_SteadyRead /\ C13_Resumes]_vars

C13_Witness ==
    /\ sync_pc = "yield_resync"
    /\ sync_out.count = 2
    /\ last_read.pc = "raw"

\* the sum of the readings number a..b, in hundredths
RECURSIVE SumReadings(_, _, _)
SumReadings(rs, a, b) ==
    IF a > b THEN 0 ELSE (rs[a].num * 100) \div rs[a].den + SumReadings(rs, a + 1, b)

\* the value v is the mean of the readings number a..b
IsMeanOf(v, rs, a, b) ==
    v.num * ((b - a + 1) * 100) = v.den * SumReadings(rs, a, b)

\* C14: after n non-null readings live_average has emitted floor(n / (8 *
\* duration)) records; the k-th ave_lux is the mean of the readings number
\* (k-1)*8*duration+1 .. k*8*duration; the readings of a partial window are
\* kept and nothing is emitted for them.
C14_OneMeanPerFullWindow ==
    options.moving > 0 =>
        LET w == 8 * options.moving IN
        /\ Len(emitted) = Len(readings) \div w
        /\ \A k \in 1..Len(emitted) :
             /\ ~emitted[k].ave_lux.null
             /\ IsMeanOf(emitted[k].ave_lux, readings, (k - 1) * w + 1, k * w)
        /\ history = SubSeq(readings, Len(emitted) * w + 1, Len(readings))

C14_Witness ==
    /\ options.moving = 2
    /\ Len(readings) = 16
    /\ Len(emitted) = 1
    /\ nframes > 16
    /\ \E i, j \in 1..16 : readings[i] # readings[j]

\* C15: live_monitor yields one reading for every frame whose menu flag is
\* not set and none for a frame whose menu flag is set; a low battery
\* only warns.
C15_OneReadingPerFrame ==
    /\ nyields = nframes - nmenus
    /\ mon_exc = "none"

\* the digit patterns and flags decode_lux is tried on
TriedDigits == {"None", "0", "L"}
TriedDisplays ==
    {Display(<<a, b, c, d>>, f[1], f[2], f[3], f[4], u, f[5], FALSE) :
        a \in TriedDigits, b \in TriedDigits, c \in TriedDigits, d \in TriedDigits,
        u \in {"lux", "fc"},
        f \in {<<FALSE, FALSE, FALSE, FALSE, FALSE>>, <<TRUE, FALSE, FALSE, TRUE, TRUE>>,
               <<FALSE, TRUE, TRUE, FALSE, FALSE>>, <<TRUE, TRUE, TRUE, TRUE, TRUE>>}}

IsOffRange(d) == d.digits = <<"None", "0", "L", "None">>

\* decode_lux gives (None, unit) for the display d exactly when d is off range
NullIffOffRange(d) ==
    \E r \in {decode_lux(decode_summary(lcd_payload(d)))} :
        /\ IsOffRange(d) => (r.exc = "none" /\ r.lux.null /\ r.unit = d.unit)
        /\ (r.exc = "none" /\ r.lux.null) => IsOffRange(d)

\* C16: decode_lux returns (None, unit) for the digits [None, 0, 'L', None]
\* under any unit and flags and for no other digits; a null reading is not
\* written as a row by core and does not enter the history of live_average.
C16_NullReadings ==
    /\ (nframes = 0 /\ nchanges = 0 /\ shown = OffRange) =>
           \A d \in TriedDisplays : NullIffOffRange(d)
    /\ NullIffOffRange(shown)
    /\ \A j \in 1..Len(history) : ~history[j].null

C16_NullNotWritten ==
    (nyields' = nyields + 1 /\ reading'.lux.null) =>
        /\ IsOffRange(shown)
        /\ nrows' = nrows
        /\ row' = row
        /\ history' = history
        /\ emitted' = emitted

C16_NullLuxOnlyOffRange == []C16_NullReadings /\ [][C16_NullNotWritten]_vars

C16_Witness ==
    /\ reading.lux.null
    /\ reading.time = nframes
    /\ shown = OffRangeFc
    /\ nrows > 0

\* C17: after any calls of init and cleanup at most one handle opened by
\* init is open, and a cleanup() that follows a cleanup() raises nothing.
C17_OneHandleIdempotentClose ==
    /\ Cardinality(OpenHandles) <= 1
    /\ (Len(calls) >= 2 /\ calls[Len(calls)] = "cleanup" /\ calls[Len(calls) - 1] = "cleanup")
           => com_exc = "none"

\* positions in the handshake where cmd is written, and where a line is
\* read as the answer to cmd (the last command written before the readline)
HsWrites(cmd) == {i \in 1..Len(hs.ops) : IsWrite(hs.ops[i]) /\ hs.ops[i].cmd = cmd}
HsReadsOf(cmd) ==
    {k \in 1..Len(hs.ops) :
        /\ IsRead(hs.ops[k])
        /\ \E i \in HsWrites(cmd) :
             /\ i < k
             /\ \A j \in (i + 1)..(k - 1) : ~IsWrite(hs.ops[j])}

\* C18: one construction writes command_40 at most twice and reads at most
\* two answers to it.
C18_AtMostTwoExtAttempts ==
    status # "new" =>
        /\ Cardinality(HsWrites("command_40")) <= 2
        /\ Cardinality(HsReadsOf("command_40")) <= 2
        /\ Len(hs.reads) <= 2

C18_Witness ==
    /\ status = "ready"
    /\ Cardinality(HsWrites("command_40")) = 2
    /\ Cardinality(HsReadsOf("command_40")) = 2
    /\ Len(hs.reads) = 2

\* C19: every write of command_55 in the handshake is followed by a later
\* write of command_40 whose answer is read, so command_55 is never the
\* last command of the handshake.
C19_HoldFollowedByExt ==
    status # "new" =>
        \A i \in HsWrites("command_55") :
            \E j \in HsWrites("command_40") :
                /\ i < j
                /\ \E k \in HsReadsOf("command_40") : j < k

\* C20: the first value get_xyz returns is sign * mantissa * 10^(exponent
\* digit - 4) of the field at offsets 9..14, as calc_lux computes it (both
\* sides in thousandths; get_xyz's values are in tenths).
C20_XyzFirstValueScaled ==
    (last.query = "get_xyz" /\ last.exc = "none") =>
        LET s == last.rd.data
            sign == IF Index(s, 9) = "+" THEN 1 ELSE -1
            e == DigitVal(Index(s, 14))
        IN  /\ e >= 1
            /\ last.val[1] * 100 = sign * FloatVal(Slice(s, 10, 14)) * Pow10(e - 1)
            /\ last.val[1] * 100 = calc_lux(s)

\* C21: when the response line is empty, get_xyz and get_delta_uv return to
\* their caller without raising.
C21_NoDataQueriesReturn ==
    (GotLine /\ last.rd.data = <<>> /\ last.query \in {"get_xyz", "get_delta_uv"}) =>
        last.exc = "none"

\* the low nibbles of the bytes 0..29 of a byte list
LowNibbles(b) == [k \in 1..Min(30, Len(b)) |-> b[k] % 16]

\* C22: decode_raw returns min(15, floor(len(bs) / 2)) payload bytes, the
\* k-th made of the low nibbles of bs[2k] and bs[2k+1]; the payload depends
\* on the low nibbles of bytes 0..29 only and is returned for a malformed
\* frame as well.
C22_PayloadFromLowNibbles ==
    raw_out.done =>
        /\ Len(raw_out.payload) = Min(15, Len(raw_out.bs) \div 2)
        /\ \A k \in 0..(Len(raw_out.payload) - 1) :
             raw_out.payload[k + 1] =
                 (raw_out.bs[2 * k + 1] % 16) + 16 * (raw_out.bs[2 * k + 2] % 16)
        /\ Len(raw_out.bs) = 33 => Len(raw_out.payload) = 15
        /\ (raw_prev.done /\ LowNibbles(raw_prev.bs) = LowNibbles(raw_out.bs)
              /\ Len(raw_prev.bs) \div 2 = Len(raw_out.bs) \div 2)
               => raw_out.payload = raw_prev.payload

C22_Witness ==
    /\ raw_prev.done
    /\ raw_out.done
    /\ Len(raw_out.bs) = 33
    /\ raw_out.malformed
    /\ ~raw_prev.malformed
    /\ raw_out.bs # raw_prev.bs
    /\ raw_out.payload = raw_prev.payload
    /\ \E k \in 1..15 : raw_out.payload[k] \notin {0, 17, 34, 51}

\* C23: every 1-byte read of live_sync is issued under the timeout 0.02 s
\* and every 33-byte read under the timeout 0.2 s, whatever transitions
\* between the phases came before.
C23_TimeoutFollowsPhase ==
    /\ last_read.n = 1 => last_read.timeout = 20
    /\ last_read.n = 33 => last_read.timeout = 200
    /\ sync_pc = "raw" => com_timeout = 20
    /\ sync_pc = "steady" => com_timeout = 200

C23_Witness ==
    /\ last_read.n = 33
    /\ last_read.timeout = 200
    /\ sync_out.count = 2
    /\ sync_out.pc = "raw"

\* C24: every record live_average emits is the mean of readings that all
\* have the unit of the record.
C24_OneUnitPerWindow ==
    options.moving > 0 =>
        LET w == 8 * options.moving IN
        \A k \in 1..Len(emitted) :
            \A j \in ((k - 1) * w + 1)..(k * w) : reading_units[j] = emitted[k].unit
====
